---- MODULE Spec2Model ----
(***************************************************************************)
(* DelayDaemon (src/main.c): a daemon that grabs an input device, delays   *)
(* every non-SYN event by a per-event delay and re-emits it on a uinput    *)
(* clone.  Threads: main (capture loop), handle_fifo (live update of the   *)
(* delay ranges), one detached invoke_delayed_evdev_event thread per       *)
(* event, and the SIGINT handler onExit.                                   *)
(*                                                                         *)
(* Characters are one-element strings; C strings and the FIFO buffer are   *)
(* sequences of characters.  NUL is the string terminator.                 *)
(***************************************************************************)
EXTENDS Integers, Sequences, FiniteSets, TLC

(***************************************************************************)
(* Bounds of the model.                                                    *)
(***************************************************************************)
\* number of calls of get_event() that return (events, drops, disconnects)
MaxReads == 2
\* number of writers that open the FIFO
MaxMsgs == 2
\* rand() returns a value in 0..MaxRand
MaxRand == 1
\* randn() with sigma /= 0 returns a value in -1..MaxRandn
MaxRandn == 3
\* number of writes to the uinput clone that fail
MaxFails == 1
\* number of things the environment does in one run: events and drops of the
\* source device, its disconnection, FIFO writers, failing writes, SIGINT
MaxInputs == 3

(***************************************************************************)
(* Program constants.                                                      *)
(***************************************************************************)
EV_SYN == 0
EV_KEY == 1
EV_REL == 2
EV_MSC == 4
SYN_REPORT == 0
\* char buffer[80] and read(fifo_fd, buffer, 80)
BUFSZ == 80
\* init_vector(&ev, 10)
EV_INIT_SIZE == 10
\* static initial value of virtual_fd, min_delay_click, ... , mu, sigma
UNSET == -1
\* the descriptor open("/dev/uinput") returns in init_evdev_virtual_input
FD_UINPUT == 4
EXIT_SUCCESS == 0
EXIT_FAILURE == 1
\* the status of a process killed by SIGSEGV (128 + 11)
EXIT_SIGSEGV == 139

NUL == "NUL"
NL == "\n"
\* a byte of memory that was never written
UNK == "?"

(***************************************************************************)
(* C integer arithmetic: / and % truncate toward zero.                     *)
(***************************************************************************)
Abs(a) == IF a < 0 THEN -a ELSE a

CDiv(a, b) ==
    LET q == Abs(a) \div Abs(b)
    IN  IF (a < 0) = (b < 0) THEN q ELSE -q

CRem(a, b) == a - b * CDiv(a, b)

(***************************************************************************)
(* Decimal text.  DigitChars[d + 1] is the character of digit d.           *)
(***************************************************************************)
DigitChars == <<"0", "1", "2", "3", "4", "5", "6", "7", "8", "9">>

IsDigit(c) == \E d \in 1..10 : DigitChars[d] = c

DigitVal(c) == (CHOOSE d \in 1..10 : DigitChars[d] = c) - 1

IsSpace(c) == c \in {" ", NL, "\t"}

\* the character at 1-based position i of s; NUL past the end
CharAt(s, i) == IF i \in 1..Len(s) THEN s[i] ELSE NUL

\* printf("%lu") / printf("%i") of a non-negative number
RECURSIVE FmtNat(_)
FmtNat(n) == IF n < 10 THEN <<DigitChars[n + 1]>>
             ELSE FmtNat(n \div 10) \o <<DigitChars[(n % 10) + 1]>>

\* printf("%i") / printf("%li")
FmtInt(n) == IF n < 0 THEN <<"-">> \o FmtNat(-n) ELSE FmtNat(n)

(***************************************************************************)
(* sscanf(buffer, "%d %d %d %d", ...): each %d skips white space, takes    *)
(* an optional sign and at least one digit; the first directive that       *)
(* fails ends the scan.  The scan stops at NUL.                            *)
(***************************************************************************)
RECURSIVE SkipSpace(_, _)
SkipSpace(s, i) == IF IsSpace(CharAt(s, i)) THEN SkipSpace(s, i + 1) ELSE i

\* the position after the run of digits that starts at i
RECURSIVE DigitsEnd(_, _)
DigitsEnd(s, i) == IF IsDigit(CharAt(s, i)) THEN DigitsEnd(s, i + 1) ELSE i

\* the value of the digits s[i..j-1]
RECURSIVE DigitsVal(_, _, _)
DigitsVal(s, i, j) == IF j <= i THEN 0
                      ELSE 10 * DigitsVal(s, i, j - 1) + DigitVal(s[j - 1])

\* one %d at position i: [ok, val, next]
ScanInt(s, i) ==
    LET p   == SkipSpace(s, i)
        neg == CharAt(s, p) = "-"
        q   == IF CharAt(s, p) \in {"-", "+"} THEN p + 1 ELSE p
        e   == DigitsEnd(s, q)
    IN  IF e = q
        THEN [ok |-> FALSE, val |-> 0, next |-> p]
        ELSE [ok |-> TRUE,
              val |-> IF neg THEN -DigitsVal(s, q, e) ELSE DigitsVal(s, q, e),
              next |-> e]

\* the values converted by up to n %d directives from position i on
RECURSIVE ScanInts(_, _, _)
ScanInts(s, i, n) ==
    IF n = 0 THEN <<>>
    ELSE LET r == ScanInt(s, i)
         IN  IF r.ok THEN <<r.val>> \o ScanInts(s, r.next, n - 1) ELSE <<>>

\* the position at which that scan ends: after the last digit of the n-th
\* number, or at the character that made a directive fail
RECURSIVE ScanEnd(_, _, _)
ScanEnd(s, i, n) ==
    IF n = 0 THEN i
    ELSE LET r == ScanInt(s, i)
         IN  IF r.ok THEN ScanEnd(s, r.next, n - 1) ELSE r.next

\* the return value of sscanf: the number of conversions, EOF (-1) on an
\* input failure before the first conversion
Sscanf4(s) ==
    LET vals == ScanInts(s, 1, 4)
    IN  IF vals = <<>> /\ CharAt(s, SkipSpace(s, 1)) = NUL
        THEN [ret |-> -1, vals |-> vals]
        ELSE [ret |-> Len(vals), vals |-> vals]

\* what the numbers found in memory that was never written may be
GarbageInts == {7}

\* vals completed to four numbers by numbers found in unwritten memory
RECURSIVE Completions(_)
Completions(vals) ==
    IF Len(vals) >= 4 THEN {vals}
    ELSE UNION {Completions(Append(vals, g)) : g \in GarbageInts}

\* the results sscanf may have on s: when a directive fails on a byte that
\* was never written, that byte may as well be a digit, and the scan goes on
\* through whatever the memory holds
SscanfOutcomes(s) ==
    LET r == Sscanf4(s)
    IN  IF r.ret < 4 /\ CharAt(s, ScanEnd(s, 1, 4)) = UNK
        THEN {r} \cup {[ret |-> 4, vals |-> c] : c \in Completions(r.vals)}
        ELSE {r}

\* read(fd, buffer, BUFSZ): the first bytes of the buffer are overwritten by
\* the message, the rest of the buffer keeps what it held
ReadInto(buf, msg) ==
    [i \in 1..BUFSZ |-> IF i <= Len(msg) THEN msg[i] ELSE buf[i]]

(***************************************************************************)
(* State.                                                                  *)
(***************************************************************************)
VARIABLES
    \* globals of main.c
    min_delay_click, max_delay_click, min_delay_move, max_delay_move,
    distribution,   \* "linear" or "normal"
    mu,             \* mean of the normal distribution (whole numbers only)
    sigma,          \* its deviation, in twentieths (sigma = mu / 20 is mu here)
    virtual_fd,     \* descriptor onExit destroys and closes
    fifo_path,      \* "NULL" or the path given as argv[7]
    fifo_thread,    \* TRUE once pthread_create(&fifo_thread, ...) has run
    ev,             \* event_vector: [size, used, events]
    \* main()
    pc,             \* position of the main thread
    inputEvent,     \* struct input_event filled by get_event
    err,            \* return value of get_event
    arg_min, arg_max,   \* the evaluated arguments of calculate_delay
    args_read,      \* which of the two arguments have been evaluated
    x,              \* local x of calculate_delay
    event,          \* index in heap of the delayed_event of this iteration
    heap,           \* the malloc'ed delayed_event objects (never freed)
    \* handle_fifo()
    fpc,            \* position of the FIFO thread
    buffer,         \* char buffer[80]
    buffer_vals,    \* buffer_min_delay_click .. buffer_max_delay_move
    fifo_log,       \* what the thread printed for the last message
    fifo_cancel,    \* pthread_cancel(fifo_thread) is pending
    \* invoke_delayed_evdev_event(), one per created thread
    tasks,
    \* onExit()
    xpc,            \* position of the SIGINT handler
    \* the process and its environment
    exit_status,    \* UNSET while the process runs
    uinput_dev,     \* the uinput clone: "none", "created", "destroyed"
    out,            \* the events written to the uinput clone, in order
    fifo_node,      \* the FIFO exists in the file system
    log_file,       \* event_log.csv as a sequence of lines
    log_state,      \* "unwritten", "appended" (file existed), "created"
    console,        \* kinds of messages main has printed
    gone,           \* the source device is disconnected
    nreads, nmsgs,  \* get_event calls returned, FIFO writers seen
    nfails,         \* writes to the uinput clone that failed
    \* history
    snapshots,      \* every configuration set at startup or by an accepted update
    quiet,          \* no update has begun since the current event was read
    updates,        \* accepted updates that have been applied completely
    sched,          \* per created thread: what was scheduled, under which range
    fifo_arg,       \* argv[7] as given: "unread" until main looks at it
    cfg_before,     \* the configuration when the last FIFO message was read
    last_msg        \* the last FIFO message

cfgVars == <<min_delay_click, max_delay_click, min_delay_move, max_delay_move>>
normVars == <<distribution, mu, sigma>>
mainVars == <<pc, inputEvent, err, arg_min, arg_max, args_read, x, event>>
fifoVars == <<fpc, buffer, buffer_vals, fifo_log, cfg_before, last_msg, nmsgs>>
exitVars == <<xpc>>
fileVars == <<log_file, log_state>>
setupVars == <<virtual_fd, fifo_path, fifo_thread, fifo_node, uinput_dev,
               fifo_arg>>

vars == <<cfgVars, normVars, mainVars, fifoVars, exitVars, fileVars, setupVars,
          ev, heap, fifo_cancel, tasks, exit_status, out, console, gone, nreads,
          nfails, snapshots, quiet, updates, sched>>

Config == <<min_delay_click, max_delay_click, min_delay_move, max_delay_move>>

Running == exit_status = UNSET

\* what the environment has done so far
Inputs == nreads + nmsgs + nfails + (IF gone THEN 1 ELSE 0)
              + (IF xpc /= "none" THEN 1 ELSE 0)

MoreInput == Inputs < MaxInputs

\* Linux hands a signal sent to the process to the main thread whenever that
\* thread does not block it, and no thread here blocks SIGINT: onExit runs on
\* the main thread, which does not go on while the handler runs.
MainRuns == Running /\ xpc = "none"

(***************************************************************************)
(* Inputs.                                                                 *)
(***************************************************************************)
\* a command line argument scanned with "%d": a number, the empty string
\* (sscanf returns EOF) or text that is no number (sscanf returns 0)
Num(n) == [kind |-> "int", val |-> n]
Empty == [kind |-> "empty", val |-> 0]
Junk == [kind |-> "junk", val |-> 0]

\* the command lines: argv[2..5] (the delays), argv[6] (the distribution),
\* argv[7] (the FIFO), argv[8..9] (mu and sigma); "absent" and <<>> stand
\* for an argument that is not given
CommandLines ==
    { [delays |-> <<Num(2), Num(2), Empty, Empty>>, dist |-> "absent",
       fifo |-> "absent", norm |-> <<>>],
      [delays |-> <<Num(2), Num(2), Num(0), Num(0)>>, dist |-> "l",
       fifo |-> "none", norm |-> <<>>],
      [delays |-> <<Num(0), Num(2), Num(3), Num(1)>>, dist |-> "n",
       fifo |-> "none", norm |-> <<>>],
      [delays |-> <<Num(0), Num(2), Num(3), Num(1)>>, dist |-> "l",
       fifo |-> "/tmp/fifo", norm |-> <<>>],
      [delays |-> <<Num(2), Junk, Num(0), Num(0)>>, dist |-> "l",
       fifo |-> "absent", norm |-> <<>>],
      [delays |-> <<Num(2), Num(2), Num(0), Num(0)>>, dist |-> "n",
       fifo |-> "/tmp/fifo", norm |-> <<5, 1>>],
      [delays |-> <<Num(0), Num(0), Num(1), Num(3)>>, dist |-> "n",
       fifo |-> "absent", norm |-> <<>>] }

\* the events the source device delivers: type, code, value, tv_usec
SourceEvents == { [type |-> EV_KEY, code |-> 30, value |-> 1, usec |-> 999],
                  [type |-> EV_REL, code |-> 0, value |-> -1, usec |-> 1500],
                  [type |-> EV_MSC, code |-> 4, value |-> 9, usec |-> 0],
                  [type |-> EV_SYN, code |-> SYN_REPORT, value |-> 0, usec |-> 0] }

\* what a delay field that was never assigned may hold
GarbageDelays == {0, 5}

\* what writers put into the FIFO; <<>> is a writer that closes without writing
Messages == { <<"3", " ", "1", " ", "2", " ", "3", NL>>,
              <<"1", " ", "1", " ", "0", NL>>,
              <<>> }

\* char buffer[80] is not initialised
Uninitialised == [i \in 1..BUFSZ |-> UNK]

NoEvent == [type |-> UNSET, code |-> 0, value |-> 0, sec |-> 0, usec |-> 0]

(***************************************************************************)
(* Initial state: the statically initialised globals, main not yet run.    *)
(***************************************************************************)
Init ==
    /\ min_delay_click = UNSET /\ max_delay_click = UNSET
    /\ min_delay_move = UNSET /\ max_delay_move = UNSET
    /\ distribution = "linear"
    /\ mu = UNSET /\ sigma = UNSET * 20
    /\ virtual_fd = UNSET
    /\ fifo_path = "NULL"
    /\ fifo_thread = FALSE
    /\ fifo_arg = "unread"
    /\ ev = [size |-> 0, used |-> 0, events |-> <<>>]
    /\ pc = "start"
    /\ inputEvent = NoEvent
    /\ err = UNSET
    /\ arg_min = 0 /\ arg_max = 0 /\ args_read = {}
    /\ x = UNSET
    /\ event = 0
    /\ heap = <<>>
    /\ fpc = "off"
    /\ buffer = Uninitialised
    /\ buffer_vals = <<0, 0, 0, 0>>
    /\ fifo_log = "none"
    /\ fifo_cancel = FALSE
    /\ tasks = <<>>
    /\ xpc = "none"
    /\ exit_status = UNSET
    /\ uinput_dev = "none"
    /\ out = <<>>
    /\ fifo_node = FALSE
    /\ log_file = <<>> /\ log_state = "unwritten"
    /\ console = {}
    /\ gone = FALSE
    /\ nreads = 0 /\ nmsgs = 0 /\ nfails = 0
    /\ snapshots = {}
    /\ quiet = FALSE
    /\ updates = 0
    /\ sched = <<>>
    /\ cfg_before = <<UNSET, UNSET, UNSET, UNSET>>
    /\ last_msg = <<>>

\* the process ends: return from main, exit(), or a fatal signal
Exit(status) == exit_status' = status

(***************************************************************************)
(* main(), startup.                                                        *)
(***************************************************************************)
\* argc <= 2: the usage text, return 1
Usage ==
    /\ MainRuns /\ pc = "start"
    /\ Exit(1)
    /\ console' = console \cup {"usage"}
    /\ UNCHANGED <<cfgVars, normVars, mainVars, fifoVars, exitVars, fileVars,
                   setupVars, ev, heap, fifo_cancel, tasks, out, gone, nreads,
                   snapshots, updates, quiet, sched, nfails>>

\* init_vector, init_evdev_input, init_evdev_virtual_input: the device is
\* opened and grabbed and its uinput clone created, or exit(EXIT_FAILURE).
\* virtual_fd is not assigned: the clone's descriptor is the local fd_uinput.
InitDevices ==
    /\ MainRuns /\ pc = "start"
    /\ ev' = [size |-> EV_INIT_SIZE, used |-> 0, events |-> <<>>]
    /\ \E ok \in BOOLEAN :
         IF ok
         THEN /\ uinput_dev' = "created"
              /\ pc' = "parse"
              /\ UNCHANGED exit_status
         ELSE /\ Exit(EXIT_FAILURE)
              /\ UNCHANGED <<uinput_dev, pc>>
    /\ UNCHANGED <<cfgVars, normVars, inputEvent, err, arg_min, arg_max,
                   args_read, x, event, fifoVars, exitVars, fileVars,
                   virtual_fd, fifo_path, fifo_thread, fifo_node, fifo_arg,
                   heap,
                   fifo_cancel, tasks, out, console, gone, nreads, snapshots, updates,
                   quiet, sched, nfails>>

\* sscanf(arg, "%d", &var) == EOF ? var = dflt : (var set on a match only)
ScanArg(arg, old, dflt) ==
    CASE arg.kind = "int"   -> arg.val
      [] arg.kind = "empty" -> dflt
      [] OTHER              -> old

\* the default of mu: (max_delay_click + min_delay_click) / 2
DefaultMu(minc, maxc) == CDiv(maxc + minc, 2)

\* the delay arguments, the distribution, the FIFO and mu, sigma
ParseArgs ==
    /\ MainRuns /\ pc = "parse"
    /\ \E cl \in CommandLines, mkfifo_ok \in BOOLEAN :
         LET a == cl.delays
             d == cl.dist
             f == cl.fifo
             n == cl.norm
             minc == ScanArg(a[1], min_delay_click, 0)
             maxc == ScanArg(a[2], max_delay_click, minc)
             minm == ScanArg(a[3], min_delay_move, 0)
             maxm == ScanArg(a[4], max_delay_move, minm)
             \* if(!strcmp(argv[7], "none")): the FIFO is set up when the
             \* argument IS "none"
             with_fifo == f = "none"
         IN  /\ (~with_fifo => mkfifo_ok)
             /\ min_delay_click' = minc /\ max_delay_click' = maxc
             /\ min_delay_move' = minm /\ max_delay_move' = maxm
             /\ distribution' = IF d = "n" THEN "normal" ELSE "linear"
             /\ snapshots' = {<<minc, maxc, minm, maxm>>}
             /\ fifo_path' = IF with_fifo THEN f ELSE fifo_path
             /\ fifo_arg' = f
             /\ IF with_fifo /\ ~mkfifo_ok
                THEN \* init_fifo returns 0: return 1
                     /\ Exit(1)
                     /\ UNCHANGED <<pc, mu, sigma, fifo_thread, fifo_node, fpc>>
                ELSE /\ fifo_node' = with_fifo
                     /\ fifo_thread' = with_fifo
                     /\ fpc' = IF with_fifo THEN "open" ELSE fpc
                     /\ mu' = IF n = <<>> THEN DefaultMu(minc, maxc) ELSE n[1]
                     /\ sigma' = IF n = <<>> THEN DefaultMu(minc, maxc)
                                 ELSE 20 * n[2]
                     /\ pc' = "validate"
                     /\ UNCHANGED exit_status
    /\ UNCHANGED <<inputEvent, err, arg_min, arg_max, args_read, x, event,
                   buffer, buffer_vals, fifo_log, cfg_before, last_msg, nmsgs,
                   exitVars, fileVars, virtual_fd, uinput_dev, ev, heap,
                   fifo_cancel, tasks, out, console, gone, nreads, quiet, updates, sched, nfails>>

\* a validation that only rejects a mean below the minimum
MuIllegalBelow == mu < min_delay_click

\* if(mu > max_delay_click || mu < min_delay_click) return 1
MuIllegal == mu > max_delay_click \/ mu < min_delay_click

Validate ==
    /\ MainRuns /\ pc = "validate"
    /\ IF MuIllegal
       THEN /\ Exit(1)
            /\ console' = console \cup {"illegal mu"}
            /\ UNCHANGED pc
       ELSE /\ pc' = "rtc_open"
            /\ UNCHANGED <<exit_status, console>>
    /\ UNCHANGED <<cfgVars, normVars, inputEvent, err, arg_min, arg_max,
                   args_read, x, event, fifoVars, exitVars, fileVars,
                   setupVars, ev, heap, fifo_cancel, tasks, out, gone, nreads,
                   snapshots, updates, quiet, sched, nfails>>

\* /dev/rtc is opened and its periodic interrupt enabled, or exit(EXIT_FAILURE)
InitRtc ==
    /\ MainRuns /\ pc = "rtc_open"
    /\ \E ok \in BOOLEAN :
         IF ok THEN pc' = "rtc" /\ UNCHANGED exit_status
               ELSE Exit(EXIT_FAILURE) /\ UNCHANGED pc
    /\ UNCHANGED <<cfgVars, normVars, inputEvent, err, arg_min, arg_max,
                   args_read, x, event, fifoVars, exitVars, fileVars,
                   setupVars, ev, heap, fifo_cancel, tasks, out, console, gone,
                   nreads, snapshots, updates, quiet, sched, nfails>>

(***************************************************************************)
(* main(), the capture loop.                                               *)
(***************************************************************************)
\* while(err = read(fd_rtc, NULL, sizeof(unsigned long))): the read returns
\* after the next periodic interrupt, with -1 (the buffer is NULL), never 0
RtcTick ==
    /\ MainRuns /\ pc = "rtc"
    /\ pc' = "get_event"
    /\ UNCHANGED <<cfgVars, normVars, inputEvent, err, arg_min, arg_max,
                   args_read, x, event, fifoVars, exitVars, fileVars,
                   setupVars, ev, heap, fifo_cancel, tasks, exit_status, out,
                   console, gone, nreads, snapshots, updates, quiet, sched, nfails>>

IsCarrierType(t) == t \in {EV_KEY, EV_REL}

\* a loop that schedules whatever get_event delivered
ScheduledAny(e, rc) == rc > -1

\* if(err > -1 && inputEvent.type != EV_SYN)
Scheduled(e, rc) == rc > -1 /\ e.type /= EV_SYN

\* lines 603-610 after get_event returned rc with inputEvent = e: a
\* delayed_event is allocated and type, code and value are copied; the
\* delay and the timestamp hold what malloc left there
AfterGetEvent(e, rc) ==
    /\ inputEvent' = e
    /\ err' = rc
    /\ quiet' = (fpc \in {"off", "open"})
    /\ IF Scheduled(e, rc)
       THEN /\ event' = Len(heap) + 1
            /\ heap' = Append(heap, [fd |-> virtual_fd, type |-> e.type,
                                     code |-> e.code, value |-> e.value,
                                     delay |-> UNSET, timestamp |-> 0])
            /\ pc' = IF IsCarrierType(e.type) THEN "args" ELSE "create"
       ELSE /\ pc' = "rtc"
            /\ UNCHANGED <<event, heap>>

\* get_event: libevdev_next_event delivers the next event of the device
GetEventOk ==
    /\ MainRuns /\ pc = "get_event" /\ ~gone /\ nreads < MaxReads
    /\ MoreInput
    /\ \E s \in SourceEvents :
         AfterGetEvent([type |-> s.type, code |-> s.code, value |-> s.value,
                        sec |-> nreads + 1, usec |-> s.usec], 1)
    /\ nreads' = nreads + 1
    /\ UNCHANGED <<cfgVars, normVars, arg_min, arg_max, args_read, x, fifoVars,
                   exitVars, fileVars, setupVars, ev, fifo_cancel, tasks,
                   exit_status, out, console, gone, nfails, snapshots, updates, sched>>

\* get_event: LIBEVDEV_READ_STATUS_SYNC, the warning, and the resync loop,
\* which ends with the SYN_REPORT that closes the resynchronised frame
GetEventDropped ==
    /\ MainRuns /\ pc = "get_event" /\ ~gone /\ nreads < MaxReads
    /\ MoreInput
    /\ AfterGetEvent([type |-> EV_SYN, code |-> SYN_REPORT, value |-> 0,
                      sec |-> nreads + 1, usec |-> 0], 1)
    /\ nreads' = nreads + 1
    /\ console' = console \cup {"syn dropped"}
    /\ UNCHANGED <<cfgVars, normVars, arg_min, arg_max, args_read, x, fifoVars,
                   exitVars, fileVars, setupVars, ev, fifo_cancel, tasks,
                   exit_status, out, gone, nfails, snapshots, updates, sched>>

\* get_event: libevdev_next_event fails with an error other than -ENODEV
\* and fills nothing in; get_event returns 1 all the same.  inputEvent holds
\* the event of the call before, or, on the first call, what the stack held
\* (tv_sec 0 stands for that).
GetEventError ==
    /\ MainRuns /\ pc = "get_event" /\ ~gone /\ nreads < MaxReads
    /\ MoreInput
    /\ \E s \in SourceEvents :
         AfterGetEvent(IF inputEvent = NoEvent
                       THEN [type |-> s.type, code |-> s.code,
                             value |-> s.value, sec |-> 0, usec |-> s.usec]
                       ELSE inputEvent, 1)
    /\ nreads' = nreads + 1
    /\ UNCHANGED <<cfgVars, normVars, arg_min, arg_max, args_read, x, fifoVars,
                   exitVars, fileVars, setupVars, ev, fifo_cancel, tasks,
                   exit_status, out, console, gone, nfails, snapshots, updates,
                   sched>>

\* get_event: -ENODEV, now and on every later call; returns -1 and leaves
\* inputEvent as it was
GetEventGone ==
    /\ MainRuns /\ pc = "get_event"
    /\ gone \/ MoreInput
    /\ gone' = TRUE
    /\ AfterGetEvent(inputEvent, -1)
    /\ console' = console \cup {"device disconnected"}
    /\ UNCHANGED <<cfgVars, normVars, arg_min, arg_max, args_read, x, fifoVars,
                   exitVars, fileVars, setupVars, ev, fifo_cancel, tasks,
                   exit_status, out, nreads, nfails, snapshots, updates, sched>>

\* the range of an event type, as the globals hold it now
RangeNow(type) ==
    IF type = EV_KEY THEN <<min_delay_click, max_delay_click>>
                     ELSE <<min_delay_move, max_delay_move>>

\* lines 612-613: the first argument of calculate_delay is loaded
ReadArgMin ==
    /\ MainRuns /\ pc = "args" /\ "min" \notin args_read
    /\ arg_min' = RangeNow(inputEvent.type)[1]
    /\ args_read' = args_read \cup {"min"}
    /\ x' = UNSET
    /\ pc' = IF "max" \in args_read THEN "calc" ELSE "args"
    /\ UNCHANGED <<cfgVars, normVars, inputEvent, err, arg_max, event,
                   fifoVars, exitVars, fileVars, setupVars, ev, heap,
                   fifo_cancel, tasks, exit_status, out, console, gone, nreads,
                   nfails, snapshots, updates, quiet, sched>>

\* lines 612-613: the second argument is loaded (C leaves the order open)
ReadArgMax ==
    /\ MainRuns /\ pc = "args" /\ "max" \notin args_read
    /\ arg_max' = RangeNow(inputEvent.type)[2]
    /\ args_read' = args_read \cup {"max"}
    /\ x' = UNSET
    /\ pc' = IF "min" \in args_read THEN "calc" ELSE "args"
    /\ UNCHANGED <<cfgVars, normVars, inputEvent, err, arg_min, event,
                   fifoVars, exitVars, fileVars, setupVars, ev, heap,
                   fifo_cancel, tasks, exit_status, out, console, gone, nreads,
                   nfails, snapshots, updates, quiet, sched>>

\* min + (rand() % (max - min)) with rand() = r
LinearDelay(min, max, r) == min + CRem(r, max - min)

\* what randn(mu, sigma) may return: (int)(mu + sigma * X) for a standard
\* normal X, which is mu when sigma is 0 and any number otherwise
Randn == IF sigma = 0 THEN {mu} ELSE -1..MaxRandn

\* while(x < min || x > max)
Rejected(v, min, max) == v < min \/ v > max

\* inputEvent.time.tv_sec * 1000 + inputEvent.time.tv_usec / 1000
Timestamp(e) == e.sec * 1000 + CDiv(e.usec, 1000)

\* a scheduling that stores one millisecond more than was computed
ScheduleSkewed(d) ==
    /\ heap' = [heap EXCEPT ![event].delay = d + 1]
    /\ tasks' = Append(tasks, [arg |-> event, tpc |-> "sleep", slept |-> 0,
                               failed |-> FALSE, woke |-> 0,
                               logged |-> FALSE])
    /\ sched' = Append(sched, [lo |-> RangeNow(inputEvent.type)[1],
                               hi |-> RangeNow(inputEvent.type)[2],
                               after |-> quiet /\ updates > 0,
                               epoch |-> updates,
                               delay |-> d + 1,
                               timestamp |-> Timestamp(inputEvent),
                               type |-> inputEvent.type,
                               code |-> inputEvent.code,
                               value |-> inputEvent.value,
                               source |-> inputEvent.sec])
    /\ pc' = "append"
    /\ args_read' = {}

\* lines 612-616: event->delay = d, then
\* pthread_create(..., invoke_delayed_evdev_event, event)
Schedule(d) ==
    /\ heap' = [heap EXCEPT ![event].delay = d]
    /\ tasks' = Append(tasks, [arg |-> event, tpc |-> "sleep", slept |-> 0,
                               failed |-> FALSE, woke |-> 0,
                               logged |-> FALSE])
    /\ sched' = Append(sched, [lo |-> RangeNow(inputEvent.type)[1],
                               hi |-> RangeNow(inputEvent.type)[2],
                               after |-> quiet /\ updates > 0,
                               epoch |-> updates,
                               delay |-> d,
                               timestamp |-> Timestamp(inputEvent),
                               type |-> inputEvent.type,
                               code |-> inputEvent.code,
                               value |-> inputEvent.value,
                               source |-> inputEvent.sec])
    /\ pc' = "append"
    /\ args_read' = {}

\* calculate_delay: if(min == max) return min
CalcConstant ==
    /\ MainRuns /\ pc = "calc" /\ arg_min = arg_max
    /\ Schedule(arg_min)
    /\ UNCHANGED <<cfgVars, normVars, inputEvent, err, arg_min, arg_max, x,
                   event, fifoVars, exitVars, fileVars, setupVars, ev,
                   fifo_cancel, exit_status, out, console, gone, nreads, nfails,
                   snapshots, updates, quiet>>

\* calculate_delay: distribution == linear
CalcLinear ==
    /\ MainRuns /\ pc = "calc" /\ arg_min /= arg_max
    /\ distribution = "linear"
    /\ \E r \in 0..MaxRand : Schedule(LinearDelay(arg_min, arg_max, r))
    /\ UNCHANGED <<cfgVars, normVars, inputEvent, err, arg_min, arg_max, x,
                   event, fifoVars, exitVars, fileVars, setupVars, ev,
                   fifo_cancel, exit_status, out, console, gone, nreads, nfails,
                   snapshots, updates, quiet>>

\* calculate_delay: distribution == normal, one turn of the rejection loop
CalcNormalDraw ==
    /\ MainRuns /\ pc = "calc" /\ arg_min /= arg_max
    /\ distribution = "normal"
    /\ Rejected(x, arg_min, arg_max)
    /\ \E v \in Randn : x' = v
    /\ UNCHANGED <<cfgVars, normVars, pc, inputEvent, err, arg_min, arg_max,
                   args_read, event, fifoVars, exitVars, fileVars, setupVars,
                   ev, heap, fifo_cancel, tasks, exit_status, out, console,
                   gone, nreads, nfails, snapshots, updates, quiet, sched>>

\* calculate_delay: distribution == normal, the loop ends and x is returned
CalcNormalReturn ==
    /\ MainRuns /\ pc = "calc" /\ arg_min /= arg_max
    /\ distribution = "normal"
    /\ ~Rejected(x, arg_min, arg_max)
    /\ Schedule(x)
    /\ UNCHANGED <<cfgVars, normVars, inputEvent, err, arg_min, arg_max, x,
                   event, fifoVars, exitVars, fileVars, setupVars, ev,
                   fifo_cancel, exit_status, out, console, gone, nreads, nfails,
                   snapshots, updates, quiet>>

\* an event that is neither EV_KEY nor EV_REL: no delay is assigned, the
\* thread is created with the delay field as malloc left it
NoDelay ==
    /\ MainRuns /\ pc = "create"
    /\ \E g \in GarbageDelays : Schedule(g)
    /\ UNCHANGED <<cfgVars, normVars, inputEvent, err, arg_min, arg_max, x,
                   event, fifoVars, exitVars, fileVars, setupVars, ev,
                   fifo_cancel, exit_status, out, console, gone, nreads, nfails,
                   snapshots, updates, quiet>>

\* an append that leaves the vector as it was
AppendToVectorDropped(v, e) == v

\* append_to_vector(ev, event)
AppendToVector(v, e) ==
    [size |-> IF v.used >= v.size THEN v.size * 2 ELSE v.size,
     used |-> v.used + 1,
     events |-> Append(v.events, e)]

\* the slot ev->events[ev->used] while *event is being copied into it: the
\* fields copied so far, the others as malloc left them
Unwritten(e, g) == [e EXCEPT !.delay = g, !.timestamp = 0]

\* lines 618-619: the timestamp is set and append_to_vector(&ev, *event)
\* begins.  In ev->events[ev->used++] = event the store of the incremented
\* ev->used and the copy into the slot are unsequenced: either comes first.
AppendBegin ==
    /\ MainRuns /\ pc = "append"
    /\ heap' = [heap EXCEPT ![event].timestamp = Timestamp(inputEvent)]
    /\ \/ /\ pc' = "stored"
          /\ UNCHANGED ev
       \/ /\ pc' = "counted"
          /\ \E g \in GarbageDelays :
                ev' = AppendToVector(ev, Unwritten(heap'[event], g))
    /\ UNCHANGED <<cfgVars, normVars, inputEvent, err, arg_min, arg_max,
                   args_read, x, event, fifoVars, exitVars, fileVars,
                   setupVars, fifo_cancel, tasks, exit_status, out, console,
                   gone, nreads, nfails, snapshots, updates, quiet, sched>>

\* append_to_vector ends: the slot holds *event and ev->used counts it
AppendEnd ==
    /\ MainRuns /\ pc \in {"stored", "counted"}
    /\ ev' = IF pc = "stored" THEN AppendToVector(ev, heap[event])
             ELSE [ev EXCEPT !.events[ev.used] = heap[event]]
    /\ pc' = "rtc"
    /\ UNCHANGED <<cfgVars, normVars, inputEvent, err, arg_min, arg_max,
                   args_read, x, event, fifoVars, exitVars, fileVars,
                   setupVars, heap, fifo_cancel, tasks, exit_status, out,
                   console, gone, nreads, nfails, snapshots, updates, quiet,
                   sched>>

(***************************************************************************)
(* invoke_delayed_evdev_event(event), one thread per scheduled event.      *)
(***************************************************************************)
\* the delay taken from the range configured when the thread wakes up
TaskDelayLive(i) == IF heap[tasks[i].arg].type = EV_KEY
                    THEN min_delay_click ELSE min_delay_move

\* int eventDelay = event->delay
TaskDelay(i) == heap[tasks[i].arg].delay

\* a write that puts the event on the clone twice
WriteEventTwice(i, type, code, value) ==
    out \o << [type |-> type, code |-> code, value |-> value, by |-> i],
              [type |-> type, code |-> code, value |-> value, by |-> i] >>

\* libevdev_uinput_write_event(uinput_dev, type, code, value) by thread i
WriteEvent(i, type, code, value) ==
    Append(out, [type |-> type, code |-> code, value |-> value, by |-> i])

\* a write to the clone succeeds or fails
WriteOk(ok) == ok /\ uinput_dev = "created"

\* a thread that prints nothing when its write fails
LogsNothing(written) == FALSE

\* if (rc != 0) printf("Failed to write uinput event: ...")
LogsFailure(written) == ~written

\* usleep(eventDelay * 1000) returns and the event itself is written; a
\* failure is printed and the thread goes on
TaskEmit(i) ==
    /\ Running /\ tasks[i].tpc = "sleep"
    /\ \E ok \in BOOLEAN :
         LET e == heap[tasks[i].arg]
         IN  /\ (~ok => nfails < MaxFails /\ MoreInput)
             /\ nfails' = IF WriteOk(ok) THEN nfails ELSE nfails + 1
             /\ out' = IF WriteOk(ok)
                       THEN WriteEvent(i, e.type, e.code, e.value) ELSE out
             /\ tasks' = [tasks EXCEPT ![i].slept = TaskDelay(i) * 1000,
                                       ![i].tpc = "syn",
                                       ![i].woke = updates,
                                       ![i].failed = ~WriteOk(ok),
                                       ![i].logged = LogsFailure(WriteOk(ok))]
    /\ UNCHANGED <<cfgVars, normVars, mainVars, fifoVars, exitVars, fileVars,
                   setupVars, ev, heap, fifo_cancel, exit_status, console, gone,
                   nreads, snapshots, updates, quiet, sched>>

\* EV_SYN, SYN_REPORT is written (its result is ignored), then pthread_exit
TaskWriteSyn(i) ==
    /\ Running /\ tasks[i].tpc = "syn"
    /\ \E ok \in BOOLEAN :
         /\ (~ok => nfails < MaxFails /\ MoreInput)
         /\ nfails' = IF WriteOk(ok) THEN nfails ELSE nfails + 1
         /\ out' = IF WriteOk(ok)
                   THEN WriteEvent(i, EV_SYN, SYN_REPORT, 0) ELSE out
    /\ tasks' = [tasks EXCEPT ![i].tpc = "done"]
    /\ UNCHANGED <<cfgVars, normVars, mainVars, fifoVars, exitVars, fileVars,
                   setupVars, ev, heap, fifo_cancel, exit_status, console, gone,
                   nreads, snapshots, updates, quiet, sched>>

(***************************************************************************)
(* handle_fifo(), the thread that sets the delay ranges from the FIFO.     *)
(***************************************************************************)
\* the candidate after "make sure max >= min"
Clamped(v) == <<v[1], IF v[2] < v[1] THEN v[1] ELSE v[2],
                v[3], IF v[4] < v[3] THEN v[3] ELSE v[4]>>

\* the locals sscanf has assigned: the converted values, in order
Assigned(old, vals) ==
    [k \in 1..4 |-> IF k <= Len(vals) THEN vals[k] ELSE old[k]]

\* open() returns when a writer opens the FIFO; read() takes what it wrote;
\* an empty read continues the loop; sscanf decides between setting the
\* delays and printing "could not set new delays"
FifoReceive ==
    /\ Running /\ fpc = "open" /\ ~fifo_cancel /\ nmsgs < MaxMsgs
    /\ MoreInput
    /\ nmsgs' = nmsgs + 1
    /\ cfg_before' = Config
    /\ \E m \in Messages :
         /\ last_msg' = m
         /\ IF Len(m) <= 0
            THEN /\ fifo_log' = "none"
                 /\ UNCHANGED <<fpc, buffer, buffer_vals, snapshots, quiet>>
            ELSE \E r \in SscanfOutcomes(ReadInto(buffer, m)) :
                     /\ buffer' = ReadInto(buffer, m)
                     /\ buffer_vals' = Assigned(buffer_vals, r.vals)
                     /\ IF r.ret = 4
                        THEN /\ fpc' = "set_min_click"
                             /\ fifo_log' = "none"
                             /\ snapshots' = snapshots \cup {Clamped(r.vals)}
                             /\ quiet' = FALSE
                        ELSE /\ fifo_log' = "bad data structure"
                             /\ UNCHANGED <<fpc, snapshots, quiet>>
    /\ UNCHANGED <<cfgVars, normVars, mainVars, exitVars, fileVars, setupVars,
                   ev, heap, fifo_cancel, tasks, exit_status, out, console,
                   gone, nreads, sched, updates, nfails>>

\* min_delay_click = buffer_min_delay_click
FifoSetMinClick ==
    /\ Running /\ fpc = "set_min_click"
    /\ min_delay_click' = buffer_vals[1]
    /\ fpc' = "set_max_click"
    /\ UNCHANGED <<max_delay_click, min_delay_move, max_delay_move, normVars,
                   mainVars, buffer, buffer_vals, fifo_log, cfg_before,
                   last_msg, nmsgs, exitVars, fileVars, setupVars, ev, heap,
                   fifo_cancel, tasks, exit_status, out, console, gone, nreads,
                   snapshots, updates, quiet, sched, nfails>>

\* max_delay_click = buffer_max_delay_click
FifoSetMaxClick ==
    /\ Running /\ fpc = "set_max_click"
    /\ max_delay_click' = buffer_vals[2]
    /\ fpc' = "set_min_move"
    /\ UNCHANGED <<min_delay_click, min_delay_move, max_delay_move, normVars,
                   mainVars, buffer, buffer_vals, fifo_log, cfg_before,
                   last_msg, nmsgs, exitVars, fileVars, setupVars, ev, heap,
                   fifo_cancel, tasks, exit_status, out, console, gone, nreads,
                   snapshots, updates, quiet, sched, nfails>>

\* min_delay_move = buffer_min_delay_move
FifoSetMinMove ==
    /\ Running /\ fpc = "set_min_move"
    /\ min_delay_move' = buffer_vals[3]
    /\ fpc' = "set_max_move"
    /\ UNCHANGED <<min_delay_click, max_delay_click, max_delay_move, normVars,
                   mainVars, buffer, buffer_vals, fifo_log, cfg_before,
                   last_msg, nmsgs, exitVars, fileVars, setupVars, ev, heap,
                   fifo_cancel, tasks, exit_status, out, console, gone, nreads,
                   snapshots, updates, quiet, sched, nfails>>

\* max_delay_move = buffer_max_delay_move
FifoSetMaxMove ==
    /\ Running /\ fpc = "set_max_move"
    /\ max_delay_move' = buffer_vals[4]
    /\ fpc' = "clamp_click"
    /\ UNCHANGED <<min_delay_click, max_delay_click, min_delay_move, normVars,
                   mainVars, buffer, buffer_vals, fifo_log, cfg_before,
                   last_msg, nmsgs, exitVars, fileVars, setupVars, ev, heap,
                   fifo_cancel, tasks, exit_status, out, console, gone, nreads,
                   snapshots, updates, quiet, sched, nfails>>

\* if(max_delay_click < min_delay_click) max_delay_click = min_delay_click
FifoClampClick ==
    /\ Running /\ fpc = "clamp_click"
    /\ max_delay_click' = IF max_delay_click < min_delay_click
                          THEN min_delay_click ELSE max_delay_click
    /\ fpc' = "clamp_move"
    /\ UNCHANGED <<min_delay_click, min_delay_move, max_delay_move, normVars,
                   mainVars, buffer, buffer_vals, fifo_log, cfg_before,
                   last_msg, nmsgs, exitVars, fileVars, setupVars, ev, heap,
                   fifo_cancel, tasks, exit_status, out, console, gone, nreads,
                   snapshots, updates, quiet, sched, nfails>>

\* if(max_delay_move < min_delay_move) max_delay_move = min_delay_move, then
\* printf("set new values ...") and close(fifo_fd); printf is a cancellation
\* point, where a cancelled thread ends
FifoClampMove ==
    /\ Running /\ fpc = "clamp_move"
    /\ max_delay_move' = IF max_delay_move < min_delay_move
                         THEN min_delay_move ELSE max_delay_move
    /\ IF fifo_cancel
       THEN fpc' = "cancelled" /\ UNCHANGED fifo_log
       ELSE fpc' = "open" /\ fifo_log' = "set new values"
    /\ updates' = updates + 1
    /\ UNCHANGED <<min_delay_click, max_delay_click, min_delay_move, normVars,
                   mainVars, buffer, buffer_vals, cfg_before, last_msg, nmsgs,
                   exitVars, fileVars, setupVars, ev, heap, fifo_cancel, tasks,
                   exit_status, out, console, gone, nreads, snapshots, quiet,
                   sched, nfails>>

(***************************************************************************)
(* onExit(signum), the SIGINT handler, and write_event_log.                *)
(***************************************************************************)
Sep == <<";">>

HeaderLine == <<"t", "i", "m", "e", "s", "t", "a", "m", "p", ";",
                "d", "e", "l", "a", "y", ";", "t", "y", "p", "e", ";",
                "v", "a", "l", "u", "e", ";", "c", "o", "d", "e", NL>>

\* fprintf(file, "%lu;%li;%i;%i;%i\n", timestamp, delay, type, value, code)
FmtLine(e) ==
    FmtNat(e.timestamp) \o Sep \o FmtInt(e.delay) \o Sep \o FmtInt(e.type)
        \o Sep \o FmtInt(e.value) \o Sep \o FmtInt(e.code) \o <<NL>>

\* the lines write_event_log appends for the first `used' events of v
LogLines(v) == [i \in 1..v.used |-> FmtLine(v.events[i])]

\* SIGINT arrives (once) and onExit starts with write_event_log(&ev): the
\* header when the file does not exist, one line per event, free_vector.
\* log_file holds what this process wrote.
Sigint ==
    /\ Running /\ xpc = "none" /\ MoreInput
    /\ \E existed \in BOOLEAN :
         /\ log_file' = IF existed THEN LogLines(ev)
                        ELSE <<HeaderLine>> \o LogLines(ev)
         /\ log_state' = IF existed THEN "appended" ELSE "created"
    /\ ev' = [size |-> 0, used |-> 0, events |-> <<>>]
    /\ xpc' = "cancel"
    /\ UNCHANGED <<cfgVars, normVars, mainVars, fifoVars, setupVars, heap, fifo_cancel, tasks, exit_status,
                   out, console, gone, nreads, snapshots, updates, quiet, sched, nfails>>

\* ioctl(fd, UI_DEV_DESTROY): destroys the clone when fd is its descriptor
DevDestroy(fd, dev) ==
    IF fd = FD_UINPUT /\ dev = "created" THEN "destroyed" ELSE dev

\* the rest of onExit: pthread_cancel(fifo_thread), unlink(fifo_path),
\* ioctl(virtual_fd, UI_DEV_DESTROY), close(virtual_fd), exit(EXIT_SUCCESS).
\* Without a FIFO fifo_thread was never created: pthread_cancel is
\* undefined, it returns or the process dies of SIGSEGV there.
ExitTeardown ==
    /\ Running /\ xpc = "cancel"
    /\ \E crash \in BOOLEAN :
         /\ (crash => ~fifo_thread)
         /\ IF crash
            THEN /\ Exit(EXIT_SIGSEGV)
                 /\ xpc' = "killed"
                 /\ UNCHANGED <<fifo_cancel, fifo_node, uinput_dev>>
            ELSE /\ fifo_cancel' = fifo_thread
                 /\ fifo_node' = IF fifo_path /= "NULL" THEN FALSE
                                 ELSE fifo_node
                 /\ uinput_dev' = DevDestroy(virtual_fd, uinput_dev)
                 /\ Exit(EXIT_SUCCESS)
                 /\ xpc' = "done"
    /\ UNCHANGED <<cfgVars, normVars, mainVars, fifoVars, fileVars,
                   virtual_fd, fifo_path, fifo_thread, fifo_arg, ev, heap,
                   tasks, out,
                   console, gone, nreads, nfails, snapshots, updates, quiet, sched>>

(***************************************************************************)
(* The program.                                                            *)
(***************************************************************************)
Main ==
    \/ Usage \/ InitDevices \/ ParseArgs \/ Validate \/ InitRtc
    \/ RtcTick \/ GetEventOk \/ GetEventDropped \/ GetEventError
    \/ GetEventGone
    \/ ReadArgMin \/ ReadArgMax
    \/ CalcConstant \/ CalcLinear \/ CalcNormalDraw \/ CalcNormalReturn
    \/ NoDelay \/ AppendBegin \/ AppendEnd

Task == \E i \in DOMAIN tasks :
            TaskEmit(i) \/ TaskWriteSyn(i)

Fifo ==
    \/ FifoReceive \/ FifoSetMinClick \/ FifoSetMaxClick \/ FifoSetMinMove
    \/ FifoSetMaxMove \/ FifoClampClick \/ FifoClampMove

OnExit == Sigint \/ ExitTeardown

Next == Main \/ Task \/ Fifo \/ OnExit

Spec == Init /\ [][Next]_vars

\* the capture loop, the delay threads and the FIFO thread keep running
FairSpec == Spec /\ WF_vars(Main) /\ WF_vars(Task) /\ WF_vars(Fifo)

\* the process left alone: no writer opens the FIFO and no interrupt
\* arrives, the capture loop and the delay threads are scheduled fairly
LiveNext == Main \/ Task

LiveSpec == Init /\ [][LiveNext]_vars /\ WF_vars(Main) /\ WF_vars(Task)

(***************************************************************************)
(* Properties.                                                             *)
(***************************************************************************)
\* the pair of a configuration that applies to events of this type
RangeOf(type, c) == IF type = EV_KEY THEN <<c[1], c[2]>> ELSE <<c[3], c[4]>>

\* the i-th created thread's event as timestamp, delay, type, value, code
SchedTuple(i) == <<sched[i].timestamp, sched[i].delay, sched[i].type,
                   sched[i].value, sched[i].code>>

\* a line "n;n;n;n;n\n" read back as five numbers, <<>> if it is not one
ParseLine(l) ==
    LET a == ScanInt(l, 1)
        b == ScanInt(l, a.next + 1)
        c == ScanInt(l, b.next + 1)
        d == ScanInt(l, c.next + 1)
        e == ScanInt(l, d.next + 1)
    IN  IF /\ a.ok /\ b.ok /\ c.ok /\ d.ok /\ e.ok
           /\ CharAt(l, a.next) = ";" /\ CharAt(l, b.next) = ";"
           /\ CharAt(l, c.next) = ";" /\ CharAt(l, d.next) = ";"
           /\ CharAt(l, e.next) = NL /\ e.next = Len(l)
        THEN <<a.val, b.val, c.val, d.val, e.val>>
        ELSE <<>>

\* the lines of the log file after the header this process may have written
DataLines == IF log_state = "created" THEN Tail(log_file) ELSE log_file

\* the threads created whose record the capture loop has appended
Appended == Len(sched) - (IF pc \in {"append", "stored"} THEN 1 ELSE 0)

\* C1: whenever the capture loop computes a delay, the minimum and maximum
\* it has read form the pair of one configuration, either the one before or
\* the one after an update, never a mixture of the two and never a pair
\* that has not been clamped yet.
C1_AtomicReconfiguration ==
    pc = "calc" =>
        \E c \in snapshots : <<arg_min, arg_max>> = RangeOf(inputEvent.type, c)

\* C2: the delay of every scheduled key or motion event lies between the
\* minimum and the maximum configured for its type when it was scheduled.
C2_DelayWithinRange ==
    \A i \in DOMAIN sched :
        IsCarrierType(sched[i].type) =>
            sched[i].lo <= sched[i].delay /\ sched[i].delay <= sched[i].hi

\* a delay drawn from lo..hi: below hi when linear over a proper interval
DrawnFrom(d, lo, hi) ==
    /\ lo <= d /\ d <= hi
    /\ (distribution = "linear" /\ lo < hi => d < hi)

\* C3: a thread sleeps for the delay that was computed when its event was
\* scheduled, whatever updates arrive while it sleeps, the delay stored
\* with the event never changes, and a key or motion event read after an
\* update was applied completely gets its delay from the new range.
C3_InFlightDelayKept ==
    /\ \A i \in DOMAIN tasks :
          /\ heap[tasks[i].arg].delay = sched[i].delay
          /\ (tasks[i].tpc /= "sleep" =>
                 tasks[i].slept = 1000 * sched[i].delay)
    /\ \A i \in DOMAIN sched :
          IsCarrierType(sched[i].type) /\ sched[i].after =>
              DrawnFrom(sched[i].delay, sched[i].lo, sched[i].hi)

\* an event was scheduled, an update was applied while it was mid-delay, it
\* was emitted afterwards with a delay outside the new range, and a later
\* event was scheduled under the new range
C3_Witness ==
    \E i, j \in DOMAIN tasks :
        /\ IsCarrierType(sched[i].type) /\ IsCarrierType(sched[j].type)
        /\ tasks[i].tpc /= "sleep" /\ tasks[i].woke > sched[i].epoch
        /\ \/ sched[i].delay < RangeOf(sched[i].type, Config)[1]
           \/ sched[i].delay > RangeOf(sched[i].type, Config)[2]
        /\ sched[j].after /\ sched[j].epoch > sched[i].epoch

\* C4: once the FIFO thread is done with a message that does not hold four
\* integers, the four delays are what they were before the message and the
\* rejection has been printed (here for the reads in which sscanf does not
\* run into bytes of the buffer that were never written).
C4_MalformedRejected ==
    /\ fpc = "open" /\ nmsgs > 0 /\ Len(last_msg) > 0
    /\ Sscanf4(last_msg).ret /= 4
    /\ CharAt(buffer, ScanEnd(buffer, 1, 4)) /= UNK
    => Config = cfg_before /\ fifo_log = "bad data structure"

\* C5: once the arguments have passed the startup validation, each maximum
\* is at least its minimum, for clicks and for motion.
C5_MaxNotBelowMin ==
    pc \notin {"start", "parse", "validate"} =>
        /\ max_delay_click >= min_delay_click
        /\ max_delay_move >= min_delay_move

\* C6: every carrier event written to the clone is immediately followed by
\* the synchronization marker written by the same thread.
C6_MarkerFollowsCarrier ==
    \A k \in 1..Len(out) - 1 :
        out[k].type /= EV_SYN =>
            out[k + 1].type = EV_SYN /\ out[k + 1].by = out[k].by

\* C7: in a run in which no interrupt arrives, once the source device is
\* gone the process eventually has flushed the log, destroyed the clone and
\* exited with the success status.
C7_DisconnectShutsDown ==
    \/ <>(xpc /= "none")
    \/ gone ~> (/\ exit_status = EXIT_SUCCESS
                /\ log_state /= "unwritten"
                /\ uinput_dev = "destroyed")

\* C8: when the handler of an interrupt that arrived after startup has run,
\* the log is flushed, the clone is destroyed, the FIFO node is gone and
\* the exit status is the success status, with or without a FIFO.
C8_InterruptShutdown ==
    xpc \in {"done", "killed"}
        /\ pc \notin {"start", "parse", "validate", "rtc_open"} =>
            /\ log_state /= "unwritten"
            /\ uinput_dev = "destroyed"
            /\ ~fifo_node
            /\ exit_status = EXIT_SUCCESS

\* C9: after the flush the file holds the header it had to get and exactly
\* one line per thread created, in the order of creation, and each line
\* reads back as the timestamp, delay, type, value and code of that event.
C9_LogRoundTrip ==
    log_state /= "unwritten" =>
        /\ (log_state = "created" =>
               log_file /= <<>> /\ Head(log_file) = HeaderLine)
        /\ Len(DataLines) = Len(sched)
        /\ \A k \in DOMAIN DataLines : ParseLine(DataLines[k]) = SchedTuple(k)

Copied(k) == ~(pc = "counted" /\ k = Len(sched))

Carriers(i) == {k \in DOMAIN out : out[k].by = i /\ out[k].type /= EV_SYN}

\* the markers thread i has written to the clone
Markers(i) == {k \in DOMAIN out : out[k].by = i /\ out[k].type = EV_SYN}

\* C11: a thread whose carrier write has failed has printed the failure and
\* its event is not on the clone; the failing step leaves the process
\* running and changes nothing of the capture loop, of the FIFO thread, of
\* the handler or of any other thread, which all go on from where they were.
C11_WriteFailureContained ==
    /\ [](\A i \in DOMAIN tasks :
             tasks[i].failed => tasks[i].logged /\ Carriers(i) = {})
    /\ [][\A i \in DOMAIN tasks :
             tasks[i].tpc = "sleep" /\ tasks'[i].failed =>
                 /\ exit_status' = UNSET
                 /\ UNCHANGED <<mainVars, fifoVars, exitVars, ev, out, sched>>
                 /\ \A j \in DOMAIN tasks \ {i} : tasks'[j] = tasks[j]]_vars

\* the carrier write of one thread has failed, the thread went on to write
\* its marker, and another thread has written its carrier after that
C11_Witness ==
    /\ exit_status = UNSET
    /\ \E i, j \in DOMAIN tasks :
          /\ i /= j /\ tasks[i].failed /\ tasks[i].logged
          /\ \E k \in Markers(i), l \in Carriers(j) : k < l

\* C12: once main has looked at argv[7], the FIFO thread exists exactly when
\* a path other than "none" was given; when the argument is absent or
\* "none" no FIFO thread runs and the four delays are those of startup.
C12_ListenerIffChannel ==
    pc \notin {"start", "parse"} =>
        /\ fifo_thread <=> fifo_arg \notin {"absent", "none"}
        /\ fifo_arg \in {"absent", "none"} =>
               fpc = "off" /\ snapshots = {Config}

\* C13: whenever the rejection loop of the normal distribution runs over a
\* range with min < max, randn can return a value that ends it: some value
\* it may return lies within [min, max].
C13_RejectionLoopEnds ==
    pc = "calc" /\ distribution = "normal" /\ arg_min < arg_max =>
        \E v \in Randn : ~Rejected(v, arg_min, arg_max)

\* C14: every event scheduled whose type is neither EV_KEY nor EV_REL has
\* the delay 0.
C14_OtherTypesZeroDelay ==
    \A i \in DOMAIN sched :
        ~IsCarrierType(sched[i].type) => sched[i].delay = 0

\* C15: the step main takes at the validation ends the process with a
\* message and a non-zero status when mu lies outside
\* [min_delay_click, max_delay_click], and goes on towards the capture loop
\* when it lies inside; a process ended like that has read no event and
\* created no thread.
C15_MuValidated ==
    /\ []("illegal mu" \in console =>
             /\ exit_status \notin {UNSET, EXIT_SUCCESS}
             /\ nreads = 0 /\ heap = <<>> /\ tasks = <<>> /\ out = <<>>)
    /\ [][pc = "validate" /\ <<pc, console, exit_status>>' /=
                                 <<pc, console, exit_status>> /\ xpc = "none" =>
             IF mu < min_delay_click \/ mu > max_delay_click
             THEN "illegal mu" \in console' /\ exit_status' = EXIT_FAILURE
             ELSE pc' = "rtc_open" /\ exit_status' = UNSET
                  /\ console' = console]_vars

\* a process that was ended by the validation of mu
C15_Witness ==
    "illegal mu" \in console /\ exit_status = EXIT_FAILURE /\ pc = "validate"

\* C16: when calculate_delay was called for a key or motion event with
\* min == max, the delay stored with the event is exactly that value, with
\* the linear and with the normal distribution, whatever mu and sigma are.
C16_ConstantDelay ==
    pc = "append" /\ IsCarrierType(inputEvent.type) /\ arg_min = arg_max =>
        /\ heap[event].delay = arg_min
        /\ sched[Len(sched)].delay = arg_min

\* a constant delay was computed while the normal distribution is in use
C16_Witness ==
    /\ pc = "append" /\ IsCarrierType(inputEvent.type) /\ arg_min = arg_max
    /\ distribution = "normal" /\ heap[event].delay = arg_min

\* C17: with the normal distribution, once an accepted update has been
\* applied, mu lies within every range it is sampled with, that is within
\* the click range and within the motion range when their min is below
\* their max.
C17_MeanWithinRanges ==
    /\ distribution = "normal" /\ updates > 0 /\ fpc = "open"
    /\ pc \notin {"start", "parse", "validate"}
    => /\ min_delay_click < max_delay_click =>
              min_delay_click <= mu /\ mu <= max_delay_click
       /\ min_delay_move < max_delay_move =>
              min_delay_move <= mu /\ mu <= max_delay_move

\* C18: the flush-and-clear of the handler never runs while an append to
\* the buffer is in progress: when onExit has started, main is not between
\* the beginning and the end of append_to_vector.
C18_AuditBufferExclusive ==
    xpc /= "none" => pc \notin {"stored", "counted"}

\* C19: no thread and no record was ever created for an EV_SYN event read
\* from the source (reading one changes neither threads nor buffer), and
\* the markers on the clone are those of the threads: at most one per
\* thread, written after the thread's own carrier write was attempted, so
\* there are never more markers than attempted carrier writes.
C19_MarkersNotRelayed ==
    /\ [](/\ \A i \in DOMAIN sched : sched[i].type /= EV_SYN
          /\ \A k \in 1..ev.used : ev.events[k].type /= EV_SYN
          /\ \A k \in DOMAIN DataLines : ParseLine(DataLines[k])[3] /= EV_SYN
          /\ \A i \in DOMAIN tasks :
                /\ Cardinality(Markers(i)) <= 1
                /\ Markers(i) /= {} => tasks[i].tpc = "done"
                /\ \A k \in Markers(i), l \in Carriers(i) : l < k
          /\ Cardinality({k \in DOMAIN out : out[k].type = EV_SYN})
                <= Cardinality({i \in DOMAIN tasks : tasks[i].tpc /= "sleep"}))
    /\ [][nreads' > nreads /\ inputEvent'.type = EV_SYN =>
             pc' = "rtc" /\ UNCHANGED <<tasks, heap, ev, sched, out>>]_vars

\* a marker has been read from the source after an event whose thread has
\* written carrier and marker: one thread, one marker on the clone
C19_Witness ==
    /\ inputEvent.type = EV_SYN /\ nreads = 2 /\ Len(tasks) = 1
    /\ Carriers(1) /= {} /\ Markers(1) /= {}

\* C20 as stated: no thread writes its carrier event more than once, and
\* when no interrupt arrives and the threads are scheduled fairly (LiveSpec)
\* every thread created eventually has its carrier event on the clone
\* exactly once.
C20_WrittenExactlyOnce ==
    /\ [](\A i \in DOMAIN tasks : Cardinality(Carriers(i)) <= 1)
    /\ \A i \in 1..MaxReads :
          (i \in DOMAIN tasks) ~> (Cardinality(Carriers(i)) = 1)

\* C20: no thread writes its carrier event more than once, and when no
\* interrupt arrives and the threads are scheduled fairly (LiveSpec) every
\* thread created eventually attempts the write, exactly once: after the
\* attempt the event is on the clone once, or not at all when the write
\* has failed (it is not tried again).
C20_AttemptedExactlyOnce ==
    /\ [](\A i \in DOMAIN tasks :
             Cardinality(Carriers(i)) =
                 IF tasks[i].tpc = "sleep" \/ tasks[i].failed THEN 0 ELSE 1)
    /\ \A i \in 1..MaxReads :
          (i \in DOMAIN tasks) ~>
              (i \in DOMAIN tasks /\ tasks[i].tpc /= "sleep")

\* no interrupt has come, one thread has ended with its event on the clone
\* once and another has ended after a failed write, its event not there
C20_Witness ==
    /\ xpc = "none"
    /\ \E i, j \in DOMAIN tasks :
          /\ tasks[i].tpc = "done" /\ Cardinality(Carriers(i)) = 1
          /\ tasks[j].tpc = "done" /\ tasks[j].failed /\ Carriers(j) = {}

\* C21: each source event is scheduled at most once: two threads created
\* for events that the device delivered never stand for the same delivered
\* event (sched[i].source is the serial of the read that filled inputEvent,
\* and 0 when no read ever filled it).
C21_ScheduledAtMostOnce ==
    \A i, j \in DOMAIN sched :
        (i /= j /\ sched[i].source >= 1) => sched[i].source /= sched[j].source

====
